---- MODULE Spec2Model ----
(***************************************************************************)
(* A model of opentelemetry.instrumentation.psycopg2: the statement        *)
(* extractor (CursorTracer), the traced cursor factory, and the            *)
(* instrumentor's connect wrapping and per-connection instrumentation.     *)
(***************************************************************************)
EXTENDS Integers, Sequences, FiniteSets, TLC

VARIABLES
    ext,            \* one evaluation of the extractor: its arguments and results
    call,           \* the last call of a wrapped cursor method on a lone cursor
    connect_wraps,  \* wrapper layers currently installed on psycopg2.connect
    is_instrumented,\* BaseInstrumentor's flag
    integrations,   \* the DatabaseApiIntegration objects created so far
    conns,          \* the connections
    hist            \* the last operation of the instrumentor API and the one before

vars == <<ext, call, connect_wraps, is_instrumented, integrations, conns, hist>>

(***************************************************************************)
(* Bounds                                                                  *)
(***************************************************************************)
MaxLen == 3           \* longest statement text, in characters
MaxParams == 2        \* longest parameter sequence
MaxCallLen == 2       \* longest statement text passed to a lone cursor's method
MaxExecLen == 0       \* longest statement text executed on a connection's cursor
MaxConns == 2         \* connections
MaxIntegrations == 2  \* DatabaseApiIntegration objects created in one run

(***************************************************************************)
(* Text: a Python str is a sequence of one-character strings.              *)
(***************************************************************************)
Whitespace == {" "}
Alphabet == {"S", "s", "%", " "}

TextsUpTo(n) == UNION {[1..k -> Alphabet] : k \in 0..n}

IsBlank(t) == \A i \in 1..Len(t) : t[i] \in Whitespace

RECURSIVE Concat(_)
Concat(parts) ==
    IF parts = <<>> THEN <<>> ELSE Head(parts) \o Concat(Tail(parts))

\* str.split()[0]: skip leading whitespace, take characters up to the next
\* whitespace; an empty token list makes the index raise IndexError.
RECURSIVE SkipWs(_)
SkipWs(t) ==
    IF t # <<>> /\ Head(t) \in Whitespace THEN SkipWs(Tail(t)) ELSE t

RECURSIVE TakeToken(_)
TakeToken(t) ==
    IF t = <<>> \/ Head(t) \in Whitespace THEN <<>>
    ELSE <<Head(t)>> \o TakeToken(Tail(t))

Ok(v) == [ok |-> TRUE, val |-> v, exc |-> "none"]
Raise(e) == [ok |-> FALSE, val |-> <<>>, exc |-> e]

SplitFirst(t) ==
    IF SkipWs(t) = <<>> THEN Raise("IndexError") ELSE Ok(TakeToken(SkipWs(t)))

(***************************************************************************)
(* Values passed to the cursor methods.                                    *)
(*   statement: a str, a psycopg2.sql.Composed (a sequence of SQL parts),  *)
(*              or an object that is neither (kind "other").               *)
(*   parameters: None, a tuple or a list.                                  *)
(***************************************************************************)
Str(t) == [kind |-> "str", text |-> t, parts |-> <<>>]
Composed(ps) == [kind |-> "composed", text |-> <<>>, parts |-> ps]
Other == [kind |-> "other", text |-> <<>>, parts |-> <<>>]

NoneParams == [kind |-> "none", items |-> <<>>]
TupleParams(xs) == [kind |-> "tuple", items |-> xs]
ListParams(xs) == [kind |-> "list", items |-> xs]

\* Composed.as_string(cursor): the parts' text joined.
as_string(statement) == Concat(statement.parts)

\* str() of a parameter value: the integer 1, or the tuple (1,) that is one
\* row of executemany's parameter sequence.
StrOfValue(v) ==
    IF v = "1" THEN <<"1">> ELSE <<"(", "1", ",", ")">>

RECURSIVE JoinValues(_)
JoinValues(xs) ==
    IF xs = <<>> THEN <<>>
    ELSE IF Len(xs) = 1 THEN StrOfValue(xs[1])
    ELSE StrOfValue(xs[1]) \o <<",", " ">> \o JoinValues(Tail(xs))

\* str() of a list of values, as "%s" formats a list operand.
StrOfList(xs) == <<"[">> \o JoinValues(xs) \o <<"]">>

\* The argument list of the % operator: a tuple's items; any other operand
\* is one argument.
FormatOperands(params) ==
    IF params.kind = "tuple" THEN [i \in 1..Len(params.items) |-> StrOfValue(params.items[i])]
    ELSE <<StrOfList(params.items)>>

\* str % operands, as CPython formats: "%%" is a literal percent; otherwise
\* "%" is followed by any number of flag characters (here the space) and a
\* conversion character.  The end of the text there is an incomplete format
\* (ValueError); then the next operand is taken (TypeError when none is
\* left); then "s" appends its str() and any other conversion character is
\* unsupported (ValueError).  At the end, operands left over raise TypeError
\* unless the operand was a list, which the operator takes for a mapping.
RECURSIVE Format(_, _, _, _)
Format(t, operands, mapping, acc) ==
    IF t = <<>> THEN
        IF operands = <<>> \/ mapping THEN Ok(acc) ELSE Raise("TypeError")
    ELSE IF Head(t) # "%" THEN Format(Tail(t), operands, mapping, acc \o <<Head(t)>>)
    ELSE IF Tail(t) # <<>> /\ Head(Tail(t)) = "%" THEN
        Format(Tail(Tail(t)), operands, mapping, acc \o <<"%">>)
    ELSE LET rest == SkipWs(Tail(t)) IN
         IF rest = <<>> THEN Raise("ValueError")
         ELSE IF operands = <<>> THEN Raise("TypeError")
         ELSE IF Head(rest) = "s" THEN
            Format(Tail(rest), Tail(operands), mapping, acc \o Head(operands))
         ELSE Raise("ValueError")

\* statement % args[1] for the values a statement can have after rendering.
Percent(stmtval, params) ==
    IF stmtval.kind = "str" THEN
        LET r == Format(stmtval.text, FormatOperands(params), params.kind = "list", <<>>) IN
        IF r.ok THEN Ok(Str(r.val)) ELSE r
    ELSE Raise("TypeError")

(***************************************************************************)
(* CursorTracer                                                            *)
(***************************************************************************)
\* isinstance(statement, Composed) -> statement.as_string(cursor)
Render(statement) ==
    IF statement.kind = "composed" THEN Str(as_string(statement)) ELSE statement

get_operation_name(args) ==
    IF args = <<>> THEN Ok(<<>>)
    ELSE LET statement == Render(args[1]) IN
         IF statement.kind = "str" THEN SplitFirst(statement.text)
         ELSE Ok(<<>>)

\* get_statement without the test that the parameters are not empty.
get_statement_always_formats(args) ==
    IF args = <<>> THEN Ok(Str(<<>>))
    ELSE LET statement == Render(args[1]) IN
         IF Len(args) >= 2 THEN
            IF args[2].kind = "none" THEN Raise("TypeError")
            ELSE Percent(statement, args[2])
         ELSE Ok(statement)

\* The result is the statement value: Str("") for the empty string.
get_statement(args) ==
    IF args = <<>> THEN Ok(Str(<<>>))
    ELSE LET statement == Render(args[1]) IN
         IF Len(args) >= 2 THEN
            IF args[2].kind = "none" THEN Raise("TypeError")
            ELSE IF Len(args[2].items) > 0 THEN Percent(statement, args[2])
            ELSE Ok(statement)
         ELSE Ok(statement)

(***************************************************************************)
(* Cursor types.  A type is its method resolution order, most derived      *)
(* class first; None is the empty sequence.                                *)
(***************************************************************************)
Methods == {"execute", "executemany", "callproc"}

Class(name, db_api) == [cls |-> name, db_api |-> db_api]

None == <<>>
pg_cursor == <<Class("pg_cursor", 0)>>
\* An application's cursor type: a subclass of the stock cursor that
\* overrides execute and inherits the rest.
CustomCursor == <<Class("CustomCursor", 0)>> \o pg_cursor

Defines(cls, method) ==
    IF cls = "CustomCursor" THEN method = "execute" ELSE TRUE

IsTraced(type) == type # None /\ Head(type).cls = "TracedCursorFactory"

\* The class whose implementation of `method` a lookup on `type` finds.
RECURSIVE Resolve(_, _)
Resolve(type, method) ==
    IF type = <<>> THEN "AttributeError"
    ELSE IF Defines(Head(type).cls, method) THEN Head(type).cls
    ELSE Resolve(Tail(type), method)

\* super().<method> inside a class body: the lookup continues after the class.
SuperMethod(self, method) == [type |-> Tail(self), method |-> method]

(***************************************************************************)
(* Psycopg2Instrumentor's class attributes                                 *)
(***************************************************************************)
_DATABASE_SYSTEM == "postgresql"

\* logical attribute name -> the path read on the connection
_CONNECTION_ATTRIBUTES ==
    {<<"database", "dbname">>, <<"port", "port">>,
     <<"host", "host">>, <<"user", "user">>}

\* dbapi.DatabaseApiIntegration.get_connection_attributes: the attributes
\* read from the connection through the accessor map.
get_connection_attributes(info) ==
    {<<a[1], info[a[2]]>> : a \in _CONNECTION_ATTRIBUTES}

NewIntegration == [span_attributes |-> {}]

(***************************************************************************)
(* Outcomes of the underlying library's methods                            *)
(***************************************************************************)
Returns(r) == [ok |-> TRUE, val |-> r, exc |-> "none"]
Raises(e) == [ok |-> FALSE, val |-> "none", exc |-> e]
Outcomes == {Returns("r1"), Raises("ProgrammingError")}

Omitted == [kind |-> "omitted", text |-> <<>>, parts |-> <<>>]

(***************************************************************************)
(* dbapi.CursorTracer.traced_execution and the traced cursor's methods.    *)
(* `world` holds what the call cannot decide: the underlying method's      *)
(* outcome, and which of the two allowed annotations a failed parameter    *)
(* substitution leaves on the span.                                        *)
(***************************************************************************)
RECURSIVE CallMethod(_, _, _, _, _)
RECURSIVE traced_execution(_, _, _, _, _)

TracedCursorFactory_execute_eager(self, args, kwargs, world) ==
    IF get_statement(args).ok
    THEN traced_execution(Head(self).db_api, SuperMethod(self, "execute"),
                          args, kwargs, world)
    ELSE [base_calls |-> <<>>, spans |-> <<>>,
          result |-> Raises(get_statement(args).exc)]

TracedCursorFactory_execute(self, args, kwargs, world) ==
    traced_execution(Head(self).db_api, SuperMethod(self, "execute"),
                     args, kwargs, world)

TracedCursorFactory_executemany_as_execute(self, args, kwargs, world) ==
    traced_execution(Head(self).db_api, SuperMethod(self, "execute"),
                     args, kwargs, world)

TracedCursorFactory_executemany(self, args, kwargs, world) ==
    traced_execution(Head(self).db_api, SuperMethod(self, "executemany"),
                     args, kwargs, world)

TracedCursorFactory_callproc(self, args, kwargs, world) ==
    traced_execution(Head(self).db_api, SuperMethod(self, "callproc"),
                     args, kwargs, world)

\* cursor.<method>(*args, **kwargs) on a cursor of type `type`.
CallMethod(type, method, args, kwargs, world) ==
    IF type = <<>> THEN
        [base_calls |-> <<>>, spans |-> <<>>, result |-> Raises("AttributeError")]
    ELSE IF Head(type).cls = "TracedCursorFactory" THEN
        CASE method = "execute" -> TracedCursorFactory_execute(type, args, kwargs, world)
          [] method = "executemany" -> TracedCursorFactory_executemany(type, args, kwargs, world)
          [] OTHER -> TracedCursorFactory_callproc(type, args, kwargs, world)
    ELSE IF Defines(Head(type).cls, method) THEN
        [base_calls |-> <<[cls |-> Head(type).cls, method |-> method,
                           args |-> args, kwargs |-> kwargs]>>,
         spans |-> <<>>,
         result |-> world.outcome]
    ELSE CallMethod(Tail(type), method, args, kwargs, world)

\* A span is opened, named and annotated from the extractor, whose failures
\* stay inside the tracing layer; then the real method runs with the
\* original arguments and its result or exception is the call's.
traced_execution(db_api, query_method, args, kwargs, world) ==
    LET name == get_operation_name(args)
        statement == get_statement(args)
        inner == CallMethod(query_method.type, query_method.method, args, kwargs, world)
        span == [db_system |-> _DATABASE_SYSTEM,
                 attributes |-> integrations[db_api].span_attributes,
                 name |-> IF name.ok THEN name.val ELSE <<>>,
                 statement |-> IF statement.ok THEN statement.val
                               ELSE IF world.fallback THEN Render(args[1])
                               ELSE Omitted,
                 failed |-> ~inner.result.ok]
    IN  [base_calls |-> inner.base_calls,
         spans |-> <<span>> \o inner.spans,
         result |-> inner.result]

\* _new_cursor_factory: the traced subclass of base_factory (of the stock
\* cursor when none is given), bound to db_api; db_api = 0 stands for None
\* and makes it construct a DatabaseApiIntegration of its own.
_new_cursor_factory(db_api, base_factory) ==
    LET api == IF db_api = 0 THEN Len(integrations) + 1 ELSE db_api
        base == IF base_factory # None THEN base_factory ELSE pg_cursor
    IN  [factory |-> <<Class("TracedCursorFactory", api)>> \o base,
         created |-> IF db_api = 0 THEN <<NewIntegration>> ELSE <<>>]

(***************************************************************************)
(* Inputs                                                                  *)
(***************************************************************************)
ParamValues == {"1", "(1,)"}
ParamSeqs == UNION {[1..k -> ParamValues] : k \in 0..MaxParams}
AllParams == {NoneParams} \cup {TupleParams(xs) : xs \in ParamSeqs}
                          \cup {ListParams(xs) : xs \in ParamSeqs}

\* A Composed of two SQL parts, for every way of cutting a text in two.
ComposedStatements(n) ==
    {Composed(<<SubSeq(t, 1, i), SubSeq(t, i + 1, Len(t))>>) :
        <<t, i>> \in {<<u, j>> \in TextsUpTo(n) \X (0..n) : j <= Len(u)}}

Statements(n) == {Str(t) : t \in TextsUpTo(n)} \cup ComposedStatements(n) \cup {Other}

ArgsOver(stmts) ==
    {<<>>} \cup {<<s>> : s \in stmts}
           \cup {<<s, p>> : <<s, p>> \in stmts \X AllParams}

AllArgs == ArgsOver(Statements(MaxLen))
CallArgs == ArgsOver(Statements(MaxCallLen))

\* keyword arguments of a cursor method call
CallKwargs == {{}, {<<"throw_exception", "False">>}}

Pending == [ok |-> FALSE, val |-> <<>>, exc |-> "pending"]
NoExt == [args |-> <<>>, op |-> Pending, st |-> Pending]
NoCall == [method |-> "none", done |-> FALSE]
NoPrev == [op |-> "none", conn |-> 0, ret |-> 0, before |-> None]
NoHist == [op |-> "none", conn |-> 0, ret |-> 0, before |-> None,
           lifecycle |-> "none", reinstrumented |-> FALSE,
           detail |-> <<>>, prev |-> NoPrev]

DB1 == [dbname |-> "db1", host |-> "h1", port |-> "5432", user |-> "u1"]
DB2 == [dbname |-> "db2", host |-> "h2", port |-> "5433", user |-> "u2"]

(***************************************************************************)
(* The extractor on its own: the arguments are drawn at Init, and each    *)
(* function is applied once.                                               *)
(***************************************************************************)
InitExtract ==
    /\ ext \in {[args |-> a, op |-> Pending, st |-> Pending] : a \in AllArgs}
    /\ call = NoCall
    /\ connect_wraps = 0
    /\ is_instrumented = FALSE
    /\ integrations = <<>>
    /\ conns = <<>>
    /\ hist = NoHist

GetOperationName ==
    /\ ext.op = Pending
    /\ ext' = [ext EXCEPT !.op = get_operation_name(ext.args)]
    /\ UNCHANGED <<call, connect_wraps, is_instrumented, integrations, conns, hist>>

GetStatement ==
    /\ ext.st = Pending
    /\ ext' = [ext EXCEPT !.st = get_statement(ext.args)]
    /\ UNCHANGED <<call, connect_wraps, is_instrumented, integrations, conns, hist>>

NextExtract == GetOperationName \/ GetStatement

SpecExtract == InitExtract /\ [][NextExtract]_vars

(***************************************************************************)
(* One call of a wrapped method on a cursor of a traced type: the type,    *)
(* the arguments and the underlying method's outcome are drawn at Init.    *)
(***************************************************************************)
LoneCursorTypes ==
    {_new_cursor_factory(1, base).factory : base \in {pg_cursor, CustomCursor}}

InitCursor ==
    /\ call \in {[method |-> "none", done |-> FALSE, cursor |-> t, args |-> a,
                  kwargs |-> k, world |-> [outcome |-> o, fallback |-> f],
                  base_calls |-> <<>>, spans |-> <<>>, result |-> Raises("pending")] :
                    <<t, a, k, o, f>> \in
                        {w \in LoneCursorTypes \X CallArgs \X CallKwargs \X Outcomes \X BOOLEAN :
                            get_statement(w[2]).ok => ~w[5]}}
    /\ ext = NoExt
    /\ connect_wraps = 0
    /\ is_instrumented = FALSE
    /\ integrations = <<[span_attributes |-> get_connection_attributes(DB1)]>>
    /\ conns = <<>>
    /\ hist = NoHist

\* The call record after cursor.<method>(*args, **kwargs).
Called(method) ==
    LET r == CallMethod(call.cursor, method, call.args, call.kwargs, call.world)
    IN  [call EXCEPT !.method = method, !.done = TRUE,
                     !.base_calls = r.base_calls,
                     !.spans = r.spans,
                     !.result = r.result]

Execute ==
    /\ ~call.done
    /\ call' = Called("execute")
    /\ UNCHANGED <<ext, connect_wraps, is_instrumented, integrations, conns, hist>>

Executemany ==
    /\ ~call.done
    /\ call' = Called("executemany")
    /\ UNCHANGED <<ext, connect_wraps, is_instrumented, integrations, conns, hist>>

Callproc ==
    /\ ~call.done
    /\ call' = Called("callproc")
    /\ UNCHANGED <<ext, connect_wraps, is_instrumented, integrations, conns, hist>>

NextCursor == Execute \/ Executemany \/ Callproc

SpecCursor == InitCursor /\ [][NextCursor]_vars

(***************************************************************************)
(* The instrumentor: psycopg2.connect and its wrapping, the connections    *)
(* and their cursor_factory hook, and statements run on their cursors.     *)
(***************************************************************************)
InfoOfDsn(dsn) == IF dsn = "dbname=db1" THEN DB1 ELSE DB2

\* psycopg2.connect(*args, **kwargs), unwrapped: the new connection.
psycopg2_connect(args, kwargs) ==
    [info |-> InfoOfDsn(args[1]),
     cursor_factory |-> IF kwargs.has_cursor_factory THEN kwargs.cursor_factory ELSE None,
     has_marker |-> FALSE,
     marker |-> None,
     orig |-> IF kwargs.has_cursor_factory THEN kwargs.cursor_factory ELSE None]

RECURSIVE ConnectThrough(_, _, _, _)
RECURSIVE wrapped_connection(_, _, _, _)

\* DatabaseApiIntegration.wrapped_connection with base_factory dropped.
wrapped_connection_stock_base(self, inner, args, kwargs) ==
    LET factory == _new_cursor_factory(self, None).factory
        made == ConnectThrough(inner, self + 1, args,
                    [has_cursor_factory |-> TRUE, cursor_factory |-> factory,
                     other |-> kwargs.other])
    IN  [made EXCEPT !.integrations =
            <<[span_attributes |-> get_connection_attributes(made.connection.info)]>>
            \o made.integrations]

\* DatabaseApiIntegration.wrapped_connection; `self` is the integration and
\* connect_method is the entry point under `inner` further wrapper layers.
wrapped_connection(self, inner, args, kwargs) ==
    LET base_cursor_factory ==
            IF kwargs.has_cursor_factory THEN kwargs.cursor_factory ELSE None
        factory == _new_cursor_factory(self, base_cursor_factory).factory
        made == ConnectThrough(inner, self + 1, args,
                    [has_cursor_factory |-> TRUE, cursor_factory |-> factory,
                     other |-> kwargs.other])
    IN  [made EXCEPT !.integrations =
            <<[span_attributes |-> get_connection_attributes(made.connection.info)]>>
            \o made.integrations]

\* psycopg2.connect as the module currently holds it: under `layers`
\* wrappers, each making a DatabaseApiIntegration (the next is `api`) and
\* handing the call to its wrapped_connection.
ConnectThrough(layers, api, args, kwargs) ==
    IF layers = 0 THEN
        [real_args |-> args, real_kwargs |-> kwargs,
         connection |-> psycopg2_connect(args, kwargs), integrations |-> <<>>]
    ELSE wrapped_connection(api, layers - 1, args, kwargs)

\* Psycopg2Instrumentor._instrument: dbapi.wrap_connect adds one wrapper.
_instrument(wraps) == wraps + 1

\* Psycopg2Instrumentor._uninstrument: dbapi.unwrap_connect takes the
\* wrapper off, when there is one.
_uninstrument_keeps_wrapper(wraps) == wraps
_uninstrument(wraps) == IF wraps > 0 THEN wraps - 1 ELSE wraps

\* Psycopg2Instrumentor.instrument_connection; `connection` is the index of
\* the connection object, `heap` the connection objects.  The result is the
\* objects after the call and the reference returned.
instrument_connection(heap, connection) ==
    [heap |-> [heap EXCEPT ![connection] =
                [@ EXCEPT !.has_marker = TRUE,
                          !.marker = heap[connection].cursor_factory,
                          !.cursor_factory = _new_cursor_factory(0, None).factory]],
     ret |-> connection]

\* Psycopg2Instrumentor.uninstrument_connection.
uninstrument_connection_clears(heap, connection) ==
    [heap |-> [heap EXCEPT ![connection] = [@ EXCEPT !.cursor_factory = None]],
     ret |-> connection]

uninstrument_connection(heap, connection) ==
    [heap |-> [heap EXCEPT ![connection] =
                [@ EXCEPT !.cursor_factory =
                    IF heap[connection].has_marker THEN heap[connection].marker
                    ELSE None]],
     ret |-> connection]

\* connection.cursor(): a cursor of the hook's type, of the stock type when
\* the hook is None.
CursorType(connection) ==
    IF connection.cursor_factory = None THEN pg_cursor ELSE connection.cursor_factory

ConnectArgs == {<<"dbname=db1">>, <<"dbname=db2">>}
ConnectKwargs ==
    {[has_cursor_factory |-> FALSE, cursor_factory |-> None,
      other |-> {<<"connect_timeout", "5">>}]}
    \cup {[has_cursor_factory |-> TRUE, cursor_factory |-> f, other |-> {}] :
        f \in {None, CustomCursor}}
ExecArgs == {<<>>} \cup {<<Str(t)>> : t \in TextsUpTo(MaxExecLen)}

Record(op, conn, ret, before, detail) ==
    [op |-> op, conn |-> conn, ret |-> ret, before |-> before,
     lifecycle |-> hist.lifecycle, reinstrumented |-> hist.reinstrumented,
     detail |-> detail,
     prev |-> IF hist.op = "instrument_connection"
              THEN [op |-> hist.op, conn |-> hist.conn, ret |-> hist.ret,
                    before |-> hist.before]
              ELSE NoPrev]

Init ==
    /\ ext = NoExt
    /\ call = NoCall
    /\ connect_wraps = 0
    /\ is_instrumented = FALSE
    /\ integrations = <<>>
    /\ conns = <<>>
    /\ hist = NoHist

\* BaseInstrumentor.instrument: _instrument runs unless already instrumented.
Instrument ==
    /\ IF is_instrumented
       THEN UNCHANGED <<connect_wraps, is_instrumented>>
       ELSE /\ connect_wraps' = _instrument(connect_wraps)
            /\ is_instrumented' = TRUE
    /\ hist' = [Record("instrument", 0, 0, None, <<>>) EXCEPT
                    !.lifecycle = "instrument",
                    !.reinstrumented = (hist.lifecycle = "instrument")]
    /\ UNCHANGED <<ext, call, integrations, conns>>

\* BaseInstrumentor.uninstrument: _uninstrument runs when instrumented.
Uninstrument ==
    /\ IF is_instrumented
       THEN /\ connect_wraps' = _uninstrument(connect_wraps)
            /\ is_instrumented' = FALSE
       ELSE UNCHANGED <<connect_wraps, is_instrumented>>
    /\ hist' = [Record("uninstrument", 0, 0, None, <<>>) EXCEPT
                    !.lifecycle = IF hist.lifecycle = "none" THEN "none" ELSE "uninstrument"]
    /\ UNCHANGED <<ext, call, integrations, conns>>

\* The application calls psycopg2.connect(*args, **kwargs).
Connect ==
    /\ Len(conns) < MaxConns
    /\ Len(integrations) + connect_wraps <= MaxIntegrations
    /\ \E args \in ConnectArgs, kwargs \in ConnectKwargs :
        LET made == ConnectThrough(connect_wraps, Len(integrations) + 1, args, kwargs)
            c == Len(conns) + 1
        IN  /\ conns' = Append(conns, made.connection)
            /\ integrations' = integrations \o made.integrations
            /\ hist' = Record("connect", c, c, None,
                              [args |-> args, kwargs |-> kwargs,
                               real_args |-> made.real_args,
                               real_kwargs |-> made.real_kwargs,
                               real_ret |-> c])
    /\ UNCHANGED <<ext, call, connect_wraps, is_instrumented>>

InstrumentConnection ==
    /\ Len(integrations) < MaxIntegrations
    /\ \E c \in 1..Len(conns) :
        /\ conns' = instrument_connection(conns, c).heap
        /\ integrations' = integrations \o _new_cursor_factory(0, None).created
        /\ hist' = Record("instrument_connection", c,
                          instrument_connection(conns, c).ret,
                          conns[c].cursor_factory, <<>>)
    /\ UNCHANGED <<ext, call, connect_wraps, is_instrumented>>

UninstrumentConnection ==
    /\ \E c \in 1..Len(conns) :
        /\ conns' = uninstrument_connection(conns, c).heap
        /\ hist' = Record("uninstrument_connection", c,
                          uninstrument_connection(conns, c).ret,
                          conns[c].cursor_factory, <<>>)
    /\ UNCHANGED <<ext, call, connect_wraps, is_instrumented, integrations>>

\* A statement run through a cursor of connection c.
Ran(c, method, args, outcome) ==
    LET r == CallMethod(CursorType(conns[c]), method, args, {},
                        [outcome |-> outcome, fallback |-> FALSE])
    IN  Record(method, c, 0, conns[c].cursor_factory,
               [spans |-> r.spans, result |-> r.result])

ConnExecute ==
    /\ \E c \in 1..Len(conns), args \in ExecArgs, outcome \in Outcomes :
        hist' = Ran(c, "execute", args, outcome)
    /\ UNCHANGED <<ext, call, connect_wraps, is_instrumented, integrations, conns>>

ConnExecutemany ==
    /\ \E c \in 1..Len(conns), args \in ExecArgs, outcome \in Outcomes :
        hist' = Ran(c, "executemany", args, outcome)
    /\ UNCHANGED <<ext, call, connect_wraps, is_instrumented, integrations, conns>>

ConnCallproc ==
    /\ \E c \in 1..Len(conns), args \in ExecArgs, outcome \in Outcomes :
        hist' = Ran(c, "callproc", args, outcome)
    /\ UNCHANGED <<ext, call, connect_wraps, is_instrumented, integrations, conns>>

Next ==
    \/ Instrument
    \/ Uninstrument
    \/ Connect
    \/ InstrumentConnection
    \/ UninstrumentConnection
    \/ ConnExecute
    \/ ConnExecutemany
    \/ ConnCallproc

Spec == Init /\ [][Next]_vars

\* The connect entry point and its wrapping alone.
NextConnect == Instrument \/ Uninstrument \/ Connect

SpecConnect == Init /\ [][NextConnect]_vars

\* The per-connection API, on connections made before or after instrument().
NextConnection ==
    \/ Instrument
    \/ Connect
    \/ InstrumentConnection
    \/ UninstrumentConnection

SpecConnection == Init /\ [][NextConnection]_vars

(***************************************************************************)
(* Properties                                                              *)
(***************************************************************************)
\* The call of the base type's method that a wrapped call must make.
BaseCall ==
    [cls |-> Resolve(Tail(call.cursor), call.method), method |-> call.method,
     args |-> call.args, kwargs |-> call.kwargs]

SubstitutionFails(args) ==
    /\ Len(args) >= 2
    /\ args[2].kind # "none"
    /\ Len(args[2].items) > 0
    /\ ~Percent(Render(args[1]), args[2]).ok

C3_ConnectWrappedOnce ==
    /\ hist.lifecycle = "instrument" => connect_wraps = 1
    /\ hist.lifecycle \in {"none", "uninstrument"} => connect_wraps = 0
    /\ (hist.op = "connect" /\ hist.lifecycle \in {"none", "uninstrument"}) =>
            /\ hist.detail.real_kwargs = hist.detail.kwargs
            /\ ~IsTraced(conns[hist.conn].cursor_factory)

C3_Witness ==
    /\ hist.op = "connect"
    /\ hist.lifecycle = "uninstrument"
    /\ hist.reinstrumented
    /\ connect_wraps = 0
    /\ ~IsTraced(conns[hist.conn].cursor_factory)

\* C4: a connect() made while instrumented passes the real connect a traced
\* cursor factory that subclasses the caller's cursor_factory (the stock
\* cursor when none was given) and whose three methods call through to that
\* type's implementation; the other arguments are passed unchanged and the
\* connection returned is the real connect's.
C4_TracedFactoryInjected ==
    (hist.op = "connect" /\ hist.lifecycle = "instrument") =>
        LET d == hist.detail
            supplied == IF d.kwargs.has_cursor_factory
                        THEN d.kwargs.cursor_factory ELSE None
            base == IF supplied # None THEN supplied ELSE pg_cursor
            f == d.real_kwargs.cursor_factory
        IN  /\ d.real_kwargs.has_cursor_factory
            /\ IsTraced(f)
            /\ Tail(f) = base
            /\ \A m \in Methods :
                LET r == CallMethod(f, m, <<>>, {},
                                    [outcome |-> Returns("r1"), fallback |-> FALSE])
                IN  /\ Len(r.base_calls) = 1
                    /\ r.base_calls[1].cls = Resolve(base, m)
            /\ d.real_kwargs.other = d.kwargs.other
            /\ d.real_args = d.args
            /\ hist.ret = d.real_ret
            /\ conns[hist.conn].cursor_factory = f

C4_Witness ==
    /\ hist.op = "connect"
    /\ hist.lifecycle = "instrument"
    /\ hist.detail.kwargs.cursor_factory = CustomCursor
    /\ IsTraced(conns[hist.conn].cursor_factory)
    /\ Resolve(Tail(conns[hist.conn].cursor_factory), "execute") = "CustomCursor"

\* C5: instrument_connection(c) followed immediately by
\* uninstrument_connection(c) leaves c's cursor_factory at the value it had
\* before the first call, and both calls return c.
C5_RoundTripRestoresHook ==
    (hist.op = "uninstrument_connection" /\ hist.prev.op = "instrument_connection"
                                         /\ hist.prev.conn = hist.conn) =>
        /\ conns[hist.conn].cursor_factory = hist.prev.before
        /\ hist.ret = hist.conn
        /\ hist.prev.ret = hist.conn

C5_Witness ==
    /\ hist.op = "uninstrument_connection"
    /\ hist.prev.op = "instrument_connection"
    /\ hist.prev.conn = hist.conn
    /\ hist.prev.before = CustomCursor
    /\ conns[hist.conn].cursor_factory = CustomCursor

\* C6: on every connection, the marker _otel_orig_cursor_factory being
\* present implies that the cursor_factory is a traced factory, and its
\* being absent implies that the cursor_factory is the one the connection
\* was made with.
C6_MarkerIffTraced ==
    \A c \in 1..Len(conns) :
        /\ conns[c].has_marker => IsTraced(conns[c].cursor_factory)
        /\ ~conns[c].has_marker => conns[c].cursor_factory = conns[c].orig

\* C7: uninstrument_connection(c) on a connection whose cursor_factory is
\* not a traced factory leaves the cursor_factory as it was.
C7_UninstrumentUninstrumentedIsNoOp ==
    (hist.op = "uninstrument_connection" /\ ~IsTraced(hist.before)) =>
        conns[hist.conn].cursor_factory = hist.before

\* C8: every span of a statement run on a cursor of an instrumented
\* connection carries the database, host, port and user read from that
\* connection.
C8_SpansCarryConnectionAttributes ==
    (hist.op \in Methods) =>
        \A i \in 1..Len(hist.detail.spans) :
            hist.detail.spans[i].attributes
                = get_connection_attributes(conns[hist.conn].info)

\* tok is the first whitespace-delimited token of t
IsFirstToken(tok, t) ==
    \E i \in 1..Len(t), j \in 1..Len(t) :
        /\ i <= j
        /\ \A k \in 1..(i - 1) : t[k] \in Whitespace
        /\ \A k \in i..j : t[k] \notin Whitespace
        /\ j = Len(t) \/ t[j + 1] \in Whitespace
        /\ tok = SubSeq(t, i, j)

\* C9: get_operation_name never raises; it returns the empty string for no
\* arguments and for a first argument that is not text after rendering, and
\* otherwise the first whitespace-delimited token of the text (a string,
\* whatever the text, also when it is empty or only whitespace).
C9_OperationNameTotal ==
    ext.op # Pending =>
        /\ ext.op.ok
        /\ IF ext.args = <<>> THEN ext.op.val = <<>>
           ELSE LET s == Render(ext.args[1]) IN
                IF s.kind # "str" THEN ext.op.val = <<>>
                ELSE IsBlank(s.text) \/ IsFirstToken(ext.op.val, s.text)

\* a statement and an empty parameter sequence
EmptyParams(args) ==
    /\ Len(args) = 2
    /\ args[2].kind \in {"tuple", "list"}
    /\ args[2].items = <<>>

\* C10, as stated: with no arguments, and with a statement and an empty
\* parameter sequence, the operation name and the statement are both empty
\* and nothing is raised.
C10_EmptyInputsYieldEmpty ==
    (ext.args = <<>> \/ EmptyParams(ext.args)) =>
        /\ ext.op # Pending => ext.op = Ok(<<>>)
        /\ ext.st # Pending => ext.st = Ok(Str(<<>>))

\* C10, as amended: with no arguments both are empty and nothing is raised;
\* with a statement and an empty parameter sequence nothing is substituted:
\* get_statement returns the rendered statement unchanged, and
\* get_operation_name returns its first token, the empty string when it is
\* not text, and raises IndexError when the text has no token.
C10_EmptyInputsUnsubstituted ==
    /\ ext.args = <<>> =>
        /\ ext.op # Pending => ext.op = Ok(<<>>)
        /\ ext.st # Pending => ext.st = Ok(Str(<<>>))
    /\ EmptyParams(ext.args) =>
        LET s == Render(ext.args[1]) IN
        /\ ext.st # Pending => ext.st = Ok(s)
        /\ ext.op # Pending =>
            IF s.kind # "str" THEN ext.op = Ok(<<>>)
            ELSE IF IsBlank(s.text) THEN ext.op = Raise("IndexError")
            ELSE ext.op.ok /\ IsFirstToken(ext.op.val, s.text)

C10_Witness ==
    /\ EmptyParams(ext.args)
    /\ ext.args[1].kind = "composed"
    /\ ext.st = Ok(Str(<<"S", " ", "%">>))
    /\ ext.op = Ok(<<"S">>)

====
